---- MODULE Spec2Model ----
(***************************************************************************)
(* body-scroll-lock (src/src/bodyScrollLock.js): the module-level state,   *)
(* the three exported operations, the zero-delay timers that change the    *)
(* document styles on the standard platform, and the touch callbacks the   *)
(* module installs on the touch platform.                                  *)
(***************************************************************************)
EXTENDS Integers, Sequences, FiniteSets, TLC

VARIABLES
    platform,                                 \* window.navigator.platform, as the host reports it now
    isIosDevice,                              \* const isIosDevice, evaluated once at module load
    firstTargetElement,                       \* let firstTargetElement = null
    allTargetElements,                        \* let allTargetElements = []
    initialClientY,                           \* let initialClientY = -1
    previousBodyOverflowSetting,              \* let previousBodyOverflowSetting (undefined)
    previousDocumentElementOverflowSetting,   \* let previousDocumentElementOverflowSetting
    previousBodyPaddingRight,                 \* let previousBodyPaddingRight
    handlers,                                 \* const handlers = new Map()
    bodyListeners,                            \* listeners registered on document.body
    ontouchstart,                             \* element.ontouchstart of every element
    ontouchmove,                              \* element.ontouchmove of every element
    bodyOverflow,                             \* document.body.style.overflow
    documentElementOverflow,                  \* document.documentElement.style.overflow
    bodyPaddingRight,                         \* document.body.style.paddingRight
    timers,                                   \* callbacks queued by setTimeout(fn), in order
    original,                                 \* the document styles before the module touched them
    lastCall,                                 \* the operation (or callback) that ran last
    recording,                                \* whether the caller's calls are recorded
    event,                                    \* the touch event a module callback handled last
    made                                      \* the calls made so far, when recorded

registryVars == <<firstTargetElement, allTargetElements, handlers, initialClientY>>
domVars == <<bodyListeners, ontouchstart, ontouchmove>>
styleVars == <<bodyOverflow, documentElementOverflow, bodyPaddingRight>>
savedVars == <<previousBodyOverflowSetting, previousDocumentElementOverflowSetting,
               previousBodyPaddingRight>>
fixedVars == <<platform, isIosDevice, original, recording>>
vars == <<registryVars, domVars, styleVars, savedVars, fixedVars, timers, lastCall, made,
          event>>

----------------------------------------------------------------------------
(* Bounds of the model *)

MaxTimers == 2          \* at most this many timer callbacks wait at once
MaxClientY == 1         \* touch points have clientY in 0..MaxClientY
MaxCalls == 4           \* a recorded caller makes at most this many calls

----------------------------------------------------------------------------
(* Values *)

NULL == "null"
UNDEFINED == "undefined"
HIDDEN == "hidden"
SENTINEL == -1

Elements == {"A", "B", "C"}
Targets == Elements \cup {NULL, UNDEFINED}

\* JavaScript truthiness of a target argument: DOM elements are truthy.
Truthy(t) == t \in Elements

\* The options argument: omitted, {reserveScrollBarGap: false}, {reserveScrollBarGap: true}
NoOptions == [given |-> FALSE, reserveScrollBarGap |-> FALSE]
Options == {NoOptions,
            [given |-> TRUE, reserveScrollBarGap |-> FALSE],
            [given |-> TRUE, reserveScrollBarGap |-> TRUE]}

OverflowValues == {"", "auto", HIDDEN}
PaddingValues == {"", "10px"}
ScrollBarGaps == {0, 15}
ClientYs == 0..MaxClientY

Platforms == {"", "MacIntel", "iPhone", "iPad Simulator"}
IosPlatforms == {"iPad", "iPhone", "iPod", "iPad Simulator", "iPhone Simulator",
                 "iPod Simulator"}

\* window.navigator.platform && /iPad|iPhone|.../.test(window.navigator.platform)
IsIosPlatform(p) == p # "" /\ p \in IosPlatforms

\* `${scrollBarGap}px`
Px(gap) == ToString(gap) \o "px"

HostCallback == "host"          \* a callback the page itself had installed
ModuleCallback == "module"      \* the callback disableBodyScroll installs on its target

Range(f) == {f[x] : x \in DOMAIN f}
SeqSet(s) == {s[i] : i \in 1..Len(s)}
Includes(s, x) == x \in SeqSet(s)
\* A slip: the test of the filter inverted.
FilterOthers(s, x) == SelectSeq(s, LAMBDA e : e = x)

\* allTargetElements.filter(elem => elem !== targetElement)
Filter(s, x) == SelectSeq(s, LAMBDA e : e # x)

\* A new closure: an object identity no live handler has. A handler is the
\* closure disableBodyScroll creates: its identity and the targetElement it holds.
InUse == {h.id : h \in Range(handlers) \cup {l.listener : l \in bodyListeners}}
NewHandler == CHOOSE n \in 1..(Cardinality(InUse) + 1) :
                  /\ n \notin InUse
                  /\ \A m \in 1..(n - 1) : m \in InUse

\* A slip: the body keeps one listener of each type.
AddEventListenerOnce(ls, type, h) ==
    IF \E l \in ls : l.type = type THEN ls ELSE ls \cup {[type |-> type, listener |-> h]}

\* document.body.addEventListener(type, listener) / removeEventListener
AddEventListener(ls, type, h) == ls \cup {[type |-> type, listener |-> h]}
RemoveEventListener(ls, type, h) == ls \ {[type |-> type, listener |-> h]}

MapSet(m, k, v) == [x \in DOMAIN m \cup {k} |-> IF x = k THEN v ELSE m[x]]
\* A slip: the entry is kept.
MapDeleteNothing(m, k) == m

\* handlers.delete(targetElement)
MapDelete(m, k) == [x \in DOMAIN m \ {k} |-> m[x]]
EmptyMap == [x \in {} |-> 0]

\* The touch events the host dispatches: where the touch lands (an element, or
\* the page outside every element), the touch points, the position of the first
\* one, and the scroll geometry of the element it lands on.
OUTSIDE == "outside"
Touches == {1, 2}       \* event.targetTouches.length
ScrollHeights == {3}    \* targetElement.scrollHeight
ScrollTops == {0, 1, 2} \* targetElement.scrollTop
ClientHeights == {1, 3} \* targetElement.clientHeight

NoEvent ==
    [type |-> "none", handledBy |-> "none", target |-> OUTSIDE, touches |-> 0,
     clientY |-> 0, scrollTop |-> 0, scrollHeight |-> 0, clientHeight |-> 0,
     defaultPrevented |-> FALSE]

----------------------------------------------------------------------------
(* The caller *)

\* What ran last: an exported operation called by the page (by = "page"), a timer
\* callback (by = the operation that queued it) or a touch callback; before is
\* the number of targets that were registered when it ran (for a timer callback:
\* 1 when the overflow was captured when it ran, else 0).
Call(op, t, threw, again) ==
    [op |-> op, target |-> t, options |-> NoOptions, threw |-> threw, gap |-> 0,
     again |-> again, by |-> "page", before |-> Len(allTargetElements)]

\* The previous operation was the same operation on the same target.
Again(op, t) == lastCall.op = op /\ lastCall.target = t

Entry(op, t, o) == [op |-> op, target |-> t, options |-> o]

\* A recorded caller locks and unlocks two elements, at most MaxCalls times.
RecordedElements == {"A", "B"}

MayCall(op, t, o) ==
    recording =>
        /\ Len(made) < MaxCalls
        /\ op \in {"disableBodyScroll", "enableBodyScroll"}
        /\ t \in RecordedElements
        /\ o \in {NoOptions, [given |-> TRUE, reserveScrollBarGap |-> TRUE]}

Record(op, t, o) ==
    made' = IF recording THEN Append(made, Entry(op, t, o)) ELSE made

----------------------------------------------------------------------------
(* Initial state *)

TypeOK ==
    /\ isIosDevice \in BOOLEAN
    /\ firstTargetElement \in Targets
    /\ initialClientY \in ClientYs \cup {SENTINEL}
    /\ DOMAIN handlers \subseteq Elements
    /\ bodyOverflow \in OverflowValues
    /\ documentElementOverflow \in OverflowValues
    /\ Len(timers) <= MaxTimers

InitModule ==
    /\ platform \in Platforms
    /\ isIosDevice = IsIosPlatform(platform)
    /\ firstTargetElement = NULL
    /\ allTargetElements = <<>>
    /\ initialClientY = SENTINEL
    /\ previousBodyOverflowSetting = UNDEFINED
    /\ previousDocumentElementOverflowSetting = UNDEFINED
    /\ previousBodyPaddingRight = UNDEFINED
    /\ handlers = EmptyMap
    /\ timers = <<>>
    /\ lastCall = Call("load", UNDEFINED, FALSE, FALSE)
    /\ made = <<>>
    /\ event = NoEvent

\* The page may have callbacks of its own on the elements, and styles of its own
\* on the body and the root element. Only the touch path reads or writes the
\* callbacks and only the standard path the styles, so each path starts from one
\* value of what it never uses.
InitDocument ==
    /\ bodyListeners = {}
    /\ ontouchstart \in [Elements -> {NULL, HostCallback}]
    /\ ~isIosDevice => ontouchstart = [e \in Elements |-> NULL]
    /\ ontouchmove = ontouchstart
    /\ bodyOverflow \in OverflowValues
    /\ documentElementOverflow \in OverflowValues
    /\ bodyPaddingRight \in PaddingValues
    /\ isIosDevice => bodyOverflow = "" /\ documentElementOverflow = ""
                         /\ bodyPaddingRight = ""
    /\ original = [bodyOverflow |-> bodyOverflow,
                   documentElementOverflow |-> documentElementOverflow,
                   bodyPaddingRight |-> bodyPaddingRight,
                   platform |-> platform]

\* The operations read isIosDevice, never the platform, so a host whose platform
\* stays what it was at load is one desktop or one touch device.
InitHost == platform \in {"MacIntel", "iPhone"}

Init == InitModule /\ InitDocument /\ InitHost /\ recording = FALSE

----------------------------------------------------------------------------
(* setOverflowHidden, restoreOverflowSetting and their timer callbacks *)

Timer(fn, o, by, relock) == [fn |-> fn, options |-> o, by |-> by, relock |-> relock]

\* A slip: no callback is queued while another one waits.
setOverflowHiddenUnlessQueued(options, by, relock) ==
    timers' = IF timers # <<>>
              THEN timers
              ELSE Append(timers, Timer("setOverflowHidden", options, by, relock))

\* setTimeout(() => {...}) in setOverflowHidden
setOverflowHidden(options, by, relock) ==
    timers' = Append(timers, Timer("setOverflowHidden", options, by, relock))

\* A slip: the callback runs before the callbacks that wait already.
restoreOverflowSettingFirst(by) ==
    timers' = <<Timer("restoreOverflowSetting", NoOptions, by, FALSE)>> \o timers

\* setTimeout(() => {...}) in restoreOverflowSetting
restoreOverflowSetting(by) ==
    timers' = Append(timers, Timer("restoreOverflowSetting", NoOptions, by, FALSE))

ReserveScrollBarGap(options) == options.given /\ options.reserveScrollBarGap = TRUE

\* A slip: the gap is reserved whatever its width.
ReservesGapOfAnyWidth(options, gap) ==
    /\ previousBodyPaddingRight = UNDEFINED
    /\ ReserveScrollBarGap(options)

\* Whether the callback of setOverflowHidden reserves the gap.
ReservesGap(options, gap) ==
    /\ previousBodyPaddingRight = UNDEFINED
    /\ ReserveScrollBarGap(options)
    /\ gap > 0

\* A slip: the overflow settings are captured on every lock.
CapturesOverflowAlways == TRUE

\* Whether the callback of setOverflowHidden captures the overflow settings.
CapturesOverflow == previousBodyOverflowSetting = UNDEFINED

\* The callback setOverflowHidden queued, run with the scroll bar gap measured then.
SetOverflowHiddenCallback(options, gap) ==
    /\ IF ReservesGap(options, gap)
       THEN /\ previousBodyPaddingRight' = bodyPaddingRight
            /\ bodyPaddingRight' = Px(gap)
       ELSE UNCHANGED <<previousBodyPaddingRight, bodyPaddingRight>>
    /\ IF CapturesOverflow
       THEN /\ previousBodyOverflowSetting' = bodyOverflow
            /\ previousDocumentElementOverflowSetting' = documentElementOverflow
            /\ bodyOverflow' = HIDDEN
            /\ documentElementOverflow' = HIDDEN
       ELSE UNCHANGED <<previousBodyOverflowSetting,
                        previousDocumentElementOverflowSetting,
                        bodyOverflow, documentElementOverflow>>

\* A slip in the callback: the root element gets the value saved for the body.
RestoreOverflowSettingCallbackBodyOnly ==
    /\ IF previousBodyPaddingRight # UNDEFINED
       THEN /\ bodyPaddingRight' = previousBodyPaddingRight
            /\ previousBodyPaddingRight' = UNDEFINED
       ELSE UNCHANGED <<previousBodyPaddingRight, bodyPaddingRight>>
    /\ IF previousBodyOverflowSetting # UNDEFINED
       THEN /\ bodyOverflow' = previousBodyOverflowSetting
            /\ documentElementOverflow' = previousBodyOverflowSetting
            /\ previousBodyOverflowSetting' = UNDEFINED
            /\ previousDocumentElementOverflowSetting' = UNDEFINED
       ELSE UNCHANGED <<previousBodyOverflowSetting,
                        previousDocumentElementOverflowSetting,
                        bodyOverflow, documentElementOverflow>>

\* The callback restoreOverflowSetting queued.
RestoreOverflowSettingCallback ==
    /\ IF previousBodyPaddingRight # UNDEFINED
       THEN /\ bodyPaddingRight' = previousBodyPaddingRight
            /\ previousBodyPaddingRight' = UNDEFINED
       ELSE UNCHANGED <<previousBodyPaddingRight, bodyPaddingRight>>
    /\ IF previousBodyOverflowSetting # UNDEFINED
       THEN /\ bodyOverflow' = previousBodyOverflowSetting
            /\ documentElementOverflow' = previousDocumentElementOverflowSetting
            /\ previousBodyOverflowSetting' = UNDEFINED
            /\ previousDocumentElementOverflowSetting' = UNDEFINED
       ELSE UNCHANGED <<previousBodyOverflowSetting,
                        previousDocumentElementOverflowSetting,
                        bodyOverflow, documentElementOverflow>>

\* The host runs the oldest waiting timer callback.
RunTimer ==
    /\ timers # <<>>
    /\ \E gap \in ScrollBarGaps :
        LET t == Head(timers) IN
        /\ IF t.fn = "setOverflowHidden"
           THEN SetOverflowHiddenCallback(t.options, gap)
           ELSE RestoreOverflowSettingCallback
        /\ lastCall' = [op |-> t.fn, target |-> UNDEFINED, options |-> t.options,
                        threw |-> FALSE,
                        gap |-> IF t.fn = "setOverflowHidden" THEN gap ELSE 0,
                        again |-> t.relock, by |-> t.by,
                        before |-> IF previousBodyOverflowSetting # UNDEFINED
                                   THEN 1 ELSE 0]
    /\ timers' = Tail(timers)
    /\ event' = NoEvent
    /\ UNCHANGED <<registryVars, domVars, fixedVars, made>>

----------------------------------------------------------------------------
(* The strategy of an operation *)

\* A slip: the platform is tested again by every operation.
UsesTouchStrategyOfCall == IsIosPlatform(platform)

\* if (isIosDevice) in the three exported operations
UsesTouchStrategy == isIosDevice

\* The host reports another platform than before (a device mode switched in the
\* browser's developer tools, a test that redefines navigator.platform).
PlatformChanges ==
    /\ ~recording
    /\ platform' \in Platforms \ {platform}
    /\ lastCall' = Call("navigator.platform", UNDEFINED, FALSE, FALSE)
    /\ event' = NoEvent
    /\ UNCHANGED <<registryVars, domVars, styleVars, savedVars, isIosDevice, original,
                   recording, timers, made>>

----------------------------------------------------------------------------
(* disableBodyScroll *)

\* A slip: the includes() test left out.
RegistersTargetAlways(t) == Truthy(t)

\* targetElement && !allTargetElements.includes(targetElement)
RegistersTarget(t) == Truthy(t) /\ ~Includes(allTargetElements, t)

\* A slip: the test of firstTargetElement left out.
FirstTargetAfterLockAlways(t) == t

\* if (!firstTargetElement) firstTargetElement = targetElement
FirstTargetAfterLock(t) ==
    IF firstTargetElement \in {NULL, UNDEFINED} THEN t ELSE firstTargetElement

\* The touch path of disableBodyScroll for a target it registers.
RegisterTarget(t) ==
    LET h == [id |-> NewHandler, target |-> t] IN
    /\ allTargetElements' = Append(allTargetElements, t)
    /\ handlers' = MapSet(handlers, t, h)
    /\ bodyListeners' = AddEventListener(
                            AddEventListener(bodyListeners, "touchstart", h),
                            "touchmove", h)
    /\ ontouchstart' = [ontouchstart EXCEPT ![t] = ModuleCallback]
    /\ ontouchmove' = [ontouchmove EXCEPT ![t] = ModuleCallback]

\* The target is locked already when the call is made.
Locked(t) ==
    /\ Truthy(t)
    /\ IF isIosDevice THEN Includes(allTargetElements, t) ELSE firstTargetElement = t

disableBodyScroll(t, o) ==
    /\ MayCall("disableBodyScroll", t, o)
    /\ IF UsesTouchStrategy
       THEN /\ IF RegistersTarget(t)
               THEN RegisterTarget(t)
               ELSE UNCHANGED <<allTargetElements, handlers, domVars>>
            /\ UNCHANGED timers
       ELSE /\ Len(timers) < MaxTimers
            /\ setOverflowHidden(o, "disableBodyScroll", Locked(t))
            /\ UNCHANGED <<allTargetElements, handlers, domVars>>
    /\ firstTargetElement' = FirstTargetAfterLock(t)
    /\ lastCall' = Call("disableBodyScroll", t, FALSE, Again("disableBodyScroll", t))
    /\ Record("disableBodyScroll", t, o)
    /\ event' = NoEvent
    /\ UNCHANGED <<initialClientY, styleVars, savedVars, fixedVars>>

----------------------------------------------------------------------------
(* clearAllBodyScrollLocks *)

\* A slip: only the touchstart listeners are removed.
WithoutHandlersTouchStartOnly(ls, hs) ==
    ls \ {[type |-> "touchstart", listener |-> h] : h \in hs}

\* handlers.forEach(handler => { removeEventListener(...) })
WithoutHandlers(ls, hs) ==
    ls \ {[type |-> ty, listener |-> h] : ty \in {"touchstart", "touchmove"}, h \in hs}

\* allTargetElements.forEach(targetElement => { targetElement.ontouchX = null })
ClearedCallbacks(cb, els) == [e \in Elements |-> IF e \in els THEN NULL ELSE cb[e]]

clearAllBodyScrollLocks ==
    /\ MayCall("clearAllBodyScrollLocks", UNDEFINED, NoOptions)
    /\ IF UsesTouchStrategy
       THEN /\ bodyListeners' = WithoutHandlers(bodyListeners, Range(handlers))
            /\ handlers' = EmptyMap
            /\ ontouchstart' = ClearedCallbacks(ontouchstart, SeqSet(allTargetElements))
            /\ ontouchmove' = ClearedCallbacks(ontouchmove, SeqSet(allTargetElements))
            /\ allTargetElements' = <<>>
            /\ initialClientY' = SENTINEL
            /\ UNCHANGED timers
       ELSE /\ Len(timers) < MaxTimers
            /\ restoreOverflowSetting("clearAllBodyScrollLocks")
            /\ UNCHANGED <<allTargetElements, handlers, initialClientY, domVars>>
    /\ firstTargetElement' = NULL
    /\ lastCall' = Call("clearAllBodyScrollLocks", UNDEFINED, FALSE,
                        Again("clearAllBodyScrollLocks", UNDEFINED))
    /\ Record("clearAllBodyScrollLocks", UNDEFINED, NoOptions)
    /\ event' = NoEvent
    /\ UNCHANGED <<styleVars, savedVars, fixedVars>>

----------------------------------------------------------------------------
(* enableBodyScroll *)

\* allTargetElements.forEach(target => { if (targetElement === target) ... })
MatchesTarget(t) == Includes(allTargetElements, t)

\* targetElement.ontouchstart = null throws a TypeError on null and undefined
ThrowsTypeError(t) == ~Truthy(t)

\* A slip: any unlock while something is locked restores the styles.
OwnsOverflowAnyTarget(t) == firstTargetElement \notin {NULL, UNDEFINED}

\* else if (firstTargetElement === targetElement)
OwnsOverflow(t) == firstTargetElement = t

enableBodyScroll(t) ==
    /\ MayCall("enableBodyScroll", t, NoOptions)
    /\ IF UsesTouchStrategy
       THEN /\ IF MatchesTarget(t)
               THEN /\ bodyListeners' =
                           RemoveEventListener(
                               RemoveEventListener(bodyListeners, "touchstart", handlers[t]),
                               "touchmove", handlers[t])
                    /\ handlers' = MapDelete(handlers, t)
                    /\ firstTargetElement' =
                           IF t = firstTargetElement THEN NULL ELSE firstTargetElement
               ELSE UNCHANGED <<bodyListeners, handlers, firstTargetElement>>
            /\ IF ThrowsTypeError(t)
               THEN UNCHANGED <<ontouchstart, ontouchmove, allTargetElements>>
               ELSE /\ ontouchstart' = [ontouchstart EXCEPT ![t] = NULL]
                    /\ ontouchmove' = [ontouchmove EXCEPT ![t] = NULL]
                    /\ allTargetElements' = Filter(allTargetElements, t)
            /\ lastCall' = Call("enableBodyScroll", t, ThrowsTypeError(t),
                                Again("enableBodyScroll", t))
            /\ UNCHANGED timers
       ELSE /\ IF OwnsOverflow(t)
               THEN /\ Len(timers) < MaxTimers
                    /\ restoreOverflowSetting("enableBodyScroll")
                    /\ firstTargetElement' = NULL
               ELSE UNCHANGED <<timers, firstTargetElement>>
            /\ lastCall' = Call("enableBodyScroll", t, FALSE, Again("enableBodyScroll", t))
            /\ UNCHANGED <<allTargetElements, handlers, domVars>>
    /\ Record("enableBodyScroll", t, NoOptions)
    /\ event' = NoEvent
    /\ UNCHANGED <<initialClientY, styleVars, savedVars, fixedVars>>

----------------------------------------------------------------------------
(* The touch callbacks the module installs *)

\* targetElement.ontouchstart, called by the host for a touch on the element
OnTouchStart(el, touches, clientY) ==
    /\ ~recording
    /\ ontouchstart[el] = ModuleCallback
    /\ initialClientY' = IF touches = 1 THEN clientY ELSE initialClientY
    /\ lastCall' = [Call("ontouchstart", el, FALSE, Again("ontouchstart", el))
                        EXCEPT !.gap = clientY]
    /\ event' = NoEvent
    /\ UNCHANGED <<firstTargetElement, allTargetElements, handlers, domVars,
                   styleVars, savedVars, fixedVars, timers, made>>

\* A slip: the comparison of the bottom test made strict.
IsTargetElementTotallyScrolledStrict(scrollHeight, scrollTop, clientHeight) ==
    scrollHeight - scrollTop < clientHeight

\* isTargetElementTotallyScrolled, for a target element that is given
IsTargetElementTotallyScrolled(scrollHeight, scrollTop, clientHeight) ==
    scrollHeight - scrollTop <= clientHeight

\* handleScroll: whether it calls preventDefault on the event
HandleScrollPrevents(y, scrollHeight, scrollTop, clientHeight) ==
    LET clientY == y - initialClientY IN
    IF scrollTop = 0 /\ clientY > 0
    THEN TRUE
    ELSE IsTargetElementTotallyScrolled(scrollHeight, scrollTop, clientHeight)
            /\ clientY < 0

\* targetElement.ontouchmove, called by the host for a touch moving on the element
OnTouchMove(el, touches, y, scrollHeight, scrollTop, clientHeight) ==
    /\ ~recording
    /\ ontouchmove[el] = ModuleCallback
    /\ event' = [type |-> "touchmove", handledBy |-> "element", target |-> el,
                 touches |-> touches, clientY |-> y, scrollTop |-> scrollTop,
                 scrollHeight |-> scrollHeight, clientHeight |-> clientHeight,
                 defaultPrevented |->
                     IF touches = 1
                     THEN HandleScrollPrevents(y, scrollHeight, scrollTop, clientHeight)
                     ELSE FALSE]
    /\ lastCall' = Call("ontouchmove", el, FALSE, FALSE)
    /\ UNCHANGED <<registryVars, domVars, styleVars, savedVars, fixedVars, timers, made>>

\* targetElement.contains(event.target): the elements do not overlap
Contains(t, origin) == t = origin

\* A slip: the handler prevents the default for touches inside its target.
HandlerPreventsInside(h, origin) == Contains(h.target, origin)

\* handlers.get(targetElement): if (!targetElement.contains(event.target)) preventDefault
HandlerPrevents(h, origin) == ~Contains(h.target, origin)

\* The body's listeners of one type, called by the host for a touch that lands on
\* origin and bubbles to the body.
OnBodyTouch(type, origin) ==
    /\ ~recording
    /\ \E l \in bodyListeners : l.type = type
    /\ event' = [NoEvent EXCEPT !.type = type, !.handledBy = "body",
                                !.target = origin,
                                !.defaultPrevented =
                                    \E l \in bodyListeners :
                                        /\ l.type = type
                                        /\ HandlerPrevents(l.listener, origin)]
    /\ lastCall' = Call("body." \o type, origin, FALSE, FALSE)
    /\ UNCHANGED <<registryVars, domVars, styleVars, savedVars, fixedVars, timers, made>>

----------------------------------------------------------------------------
(* Specifications *)

Next ==
    \/ \E t \in Targets, o \in Options : disableBodyScroll(t, o)
    \/ \E t \in Targets : enableBodyScroll(t)
    \/ clearAllBodyScrollLocks
    \/ RunTimer
    \/ \E el \in Elements, n \in Touches, y \in ClientYs : OnTouchStart(el, n, y)

\* Any calls, in any order, on either platform.
Spec == Init /\ [][Next]_vars

InitCalls == InitModule /\ InitDocument /\ InitHost /\ recording = TRUE

NextCalls ==
    \/ \E t \in Targets, o \in Options : disableBodyScroll(t, o)
    \/ \E t \in Targets : enableBodyScroll(t)
    \/ RunTimer

\* A caller that locks and unlocks elements, its calls recorded in made.
SpecCalls == InitCalls /\ [][NextCalls]_vars

\* The touch platform, on a page without touch callbacks of its own (the module's
\* callbacks never read them) that locks and unlocks elements.
InitTouch ==
    /\ Init
    /\ isIosDevice
    /\ ontouchstart = [e \in Elements |-> NULL]

\* The page locks two of its elements; touches land on any of the three.
TouchTargets == {"A", "B"}

NextTouch ==
    \/ \E t \in TouchTargets : disableBodyScroll(t, NoOptions)
    \/ \E t \in TouchTargets : enableBodyScroll(t)
    \/ clearAllBodyScrollLocks
    \/ \E el \in Elements, n \in Touches, y \in ClientYs : OnTouchStart(el, n, y)
    \/ \E el \in Elements, n \in Touches, y \in ClientYs, sh \in ScrollHeights,
          st \in ScrollTops, ch \in ClientHeights : OnTouchMove(el, n, y, sh, st, ch)
    \/ \E type \in {"touchstart", "touchmove"}, origin \in Elements \cup {OUTSIDE} :
          OnBodyTouch(type, origin)

\* Any calls and any touch events, in any order, on the touch platform.
SpecTouch == InitTouch /\ [][NextTouch]_vars

InitStandard == Init /\ ~isIosDevice

NextStandard ==
    \/ \E t \in Elements, o \in Options : disableBodyScroll(t, o)
    \/ \E t \in Elements : enableBodyScroll(t)
    \/ clearAllBodyScrollLocks
    \/ RunTimer

\* The standard platform, every call with an element for its target.
SpecStandard == InitStandard /\ [][NextStandard]_vars

\* A page without styles and touch callbacks of its own, loaded on any platform.
InitPlatform ==
    /\ InitModule
    /\ InitDocument
    /\ recording = FALSE
    /\ ontouchstart = [e \in Elements |-> NULL]
    /\ bodyOverflow = "" /\ documentElementOverflow = "" /\ bodyPaddingRight = ""

NextPlatform ==
    \/ \E t \in TouchTargets : disableBodyScroll(t, NoOptions)
    \/ \E t \in TouchTargets : enableBodyScroll(t)
    \/ clearAllBodyScrollLocks
    \/ RunTimer
    \/ PlatformChanges

\* Any calls, in any order, on a host whose reported platform changes.
SpecPlatform == InitPlatform /\ [][NextPlatform]_vars

----------------------------------------------------------------------------
(* Properties *)

IsLock(e, t) == e.op = "disableBodyScroll" /\ e.target = t
IsUnlock(e, t) == e.op = "enableBodyScroll" /\ e.target = t

OverflowHidden == bodyOverflow = HIDDEN /\ documentElementOverflow = HIDDEN
OverflowOriginal ==
    /\ bodyOverflow = original.bodyOverflow
    /\ documentElementOverflow = original.documentElementOverflow
OverflowCaptured == previousBodyOverflowSetting # UNDEFINED

\* C1: on the standard platform, from the unlocked state and for every pair of
\* initial overflow values, once disableBodyScroll(A) and its timer callback have
\* run both overflow styles are 'hidden', and once the following
\* enableBodyScroll(A) and its timer callback have run both are the values they
\* had before the lock.
C1_LockHidesUnlockRestores ==
    (~isIosDevice /\ timers = <<>>) =>
        \A a \in RecordedElements :
            /\ (Len(made) = 1 /\ IsLock(made[1], a)) => OverflowHidden
            /\ (Len(made) = 2 /\ IsLock(made[1], a) /\ IsUnlock(made[2], a))
                   => OverflowOriginal

C1_Witness ==
    /\ ~isIosDevice
    /\ timers = <<>>
    /\ Len(made) = 2 /\ IsLock(made[1], "A") /\ IsUnlock(made[2], "A")
    /\ lastCall.op = "restoreOverflowSetting"
    /\ original.bodyOverflow = "auto" /\ original.documentElementOverflow = ""
    /\ bodyOverflow = "auto" /\ documentElementOverflow = ""

\* C2: on the standard platform, for distinct targets A and B and from the
\* unlocked state: once lock(A), lock(B), unlock(B) and their timer callbacks
\* have run the overflow styles are still 'hidden' and the saved overflow is
\* still captured; once the following unlock(A) and its callback have run both
\* overflow styles equal their values before the locks.
C2_OnlyFirstTargetRestores ==
    (~isIosDevice /\ timers = <<>>) =>
        \A a, b \in RecordedElements :
            (/\ a # b
             /\ Len(made) >= 3
             /\ IsLock(made[1], a) /\ IsLock(made[2], b) /\ IsUnlock(made[3], b))
            => /\ Len(made) = 3 => OverflowHidden /\ OverflowCaptured
               /\ (Len(made) = 4 /\ IsUnlock(made[4], a)) => OverflowOriginal

C2_Witness ==
    /\ ~isIosDevice
    /\ timers = <<>>
    /\ Len(made) = 4
    /\ IsLock(made[1], "A") /\ IsLock(made[2], "B")
    /\ IsUnlock(made[3], "B") /\ IsUnlock(made[4], "A")
    /\ original.bodyOverflow = "" /\ original.documentElementOverflow = "auto"
    /\ OverflowOriginal
    /\ ~OverflowCaptured

\* The targets locked and not unlocked since, by the calls made.
Outstanding ==
    {t \in Elements :
        \E i \in 1..Len(made) :
            /\ IsLock(made[i], t)
            /\ \A j \in (i + 1)..Len(made) : ~IsUnlock(made[j], t)}

\* C3: on the standard platform, in any sequence of lock and unlock calls, while
\* some target has been locked and not unlocked since, the overflow styles are
\* 'hidden' whenever no timer callback is waiting.
C3_HiddenWhileAnyLockOutstanding ==
    (~isIosDevice /\ timers = <<>> /\ Outstanding # {}) => OverflowHidden

NoModuleCallbacks ==
    \A e \in Elements : ontouchstart[e] # ModuleCallback /\ ontouchmove[e] # ModuleCallback

StylesOriginal == OverflowOriginal /\ bodyPaddingRight = original.bodyPaddingRight
NothingSaved ==
    /\ previousBodyOverflowSetting = UNDEFINED
    /\ previousDocumentElementOverflowSetting = UNDEFINED
    /\ previousBodyPaddingRight = UNDEFINED

\* C4: on either platform and with any number of targets locked, right after
\* clearAllBodyScrollLocks allTargetElements and handlers are empty, the body has
\* no listener and no element a callback of the module, firstTargetElement is
\* null and initialClientY is -1; on the standard platform, right after the timer
\* callback it queued has run, overflow and padding have their values from before
\* the locks and nothing is saved.
C4_ClearAllResets ==
    /\ lastCall.op = "clearAllBodyScrollLocks" =>
           /\ allTargetElements = <<>>
           /\ handlers = EmptyMap
           /\ bodyListeners = {}
           /\ NoModuleCallbacks
           /\ firstTargetElement = NULL
           /\ initialClientY = SENTINEL
    /\ (lastCall.op = "restoreOverflowSetting" /\ lastCall.by = "clearAllBodyScrollLocks")
           => StylesOriginal /\ NothingSaved

C4_Witness ==
    /\ isIosDevice
    /\ lastCall.op = "clearAllBodyScrollLocks"
    /\ lastCall.before >= 2

NoDuplicates ==
    \A i, j \in 1..Len(allTargetElements) :
        i # j => allTargetElements[i] # allTargetElements[j]

\* The step is disableBodyScroll(T) right after disableBodyScroll(T).
SecondLockInARow ==
    /\ lastCall.op = "disableBodyScroll"
    /\ lastCall'.op = "disableBodyScroll"
    /\ lastCall'.target = lastCall.target
    /\ lastCall'.target \in Elements

\* C5: a target is never twice in allTargetElements, and on the touch platform a
\* second disableBodyScroll(A) in a row leaves the number of registered targets,
\* of handlers entries and of body listeners what the first call made them.
C5_LockTwiceIsLockOnce ==
    /\ []NoDuplicates
    /\ [][(isIosDevice /\ SecondLockInARow) =>
            /\ Len(allTargetElements') = Len(allTargetElements)
            /\ Cardinality(DOMAIN handlers') = Cardinality(DOMAIN handlers)
            /\ Cardinality(bodyListeners') = Cardinality(bodyListeners)]_vars

C5_Witness ==
    /\ isIosDevice
    /\ lastCall.op = "disableBodyScroll"
    /\ lastCall.again
    /\ lastCall.target = "B"
    /\ allTargetElements = <<"A", "B">>
    /\ Cardinality(bodyListeners) = 4

\* The step is disableBodyScroll(T) for an element T that is locked already.
LocksLockedTarget ==
    /\ lastCall'.op = "disableBodyScroll"
    /\ Locked(lastCall'.target)

\* The step runs the timer callback of such a disableBodyScroll.
RunsCallbackOfRelock ==
    /\ lastCall'.op = "setOverflowHidden"
    /\ lastCall'.again

\* C6 as claimed: disableBodyScroll(T) for a locked T, with any options, leaves
\* allTargetElements, handlers, the listeners and callbacks, firstTargetElement
\* and the saved values unchanged, and its timer callback leaves the saved
\* values and the document styles unchanged.
C6_RelockChangesNothing ==
    /\ [][LocksLockedTarget =>
            UNCHANGED <<allTargetElements, handlers, domVars, firstTargetElement,
                        savedVars>>]_vars
    /\ [][RunsCallbackOfRelock => UNCHANGED <<savedVars, styleVars>>]_vars

\* C6, amended: disableBodyScroll(T) for a locked T leaves allTargetElements,
\* handlers, the listeners and callbacks and the saved values unchanged, and
\* firstTargetElement unchanged unless it was unset, when it becomes T; its timer
\* callback leaves the saved overflow and the overflow styles unchanged, and
\* changes the padding and the saved padding only when no padding is saved,
\* reserveScrollBarGap is true and the gap is greater than 0.
C6_RelockKeepsRegistryAndOverflow ==
    /\ [][LocksLockedTarget =>
            /\ UNCHANGED <<allTargetElements, handlers, domVars, savedVars>>
            /\ \/ firstTargetElement' = firstTargetElement
               \/ /\ firstTargetElement \in {NULL, UNDEFINED}
                  /\ firstTargetElement' = lastCall'.target]_vars
    /\ [][RunsCallbackOfRelock =>
            /\ UNCHANGED <<previousBodyOverflowSetting,
                           previousDocumentElementOverflowSetting,
                           bodyOverflow, documentElementOverflow>>
            /\ \/ UNCHANGED <<previousBodyPaddingRight, bodyPaddingRight>>
               \/ /\ previousBodyPaddingRight = UNDEFINED
                  /\ lastCall'.options.given
                  /\ lastCall'.options.reserveScrollBarGap
                  /\ lastCall'.gap > 0]_vars

C6_Witness ==
    /\ ~isIosDevice
    /\ lastCall.op = "setOverflowHidden"
    /\ lastCall.again
    /\ OverflowCaptured
    /\ OverflowHidden
    /\ original.bodyOverflow = "auto"

\* The step is enableBodyScroll(T) for an element T that is not locked.
UnlocksUnlockedTarget ==
    /\ lastCall'.op = "enableBodyScroll"
    /\ Truthy(lastCall'.target)
    /\ ~Locked(lastCall'.target)

\* C7: enableBodyScroll(T) for an element T that is not locked changes nothing:
\* allTargetElements, handlers, the body listeners, every element's touch
\* callbacks, firstTargetElement, initialClientY, the saved values and the
\* document styles stay as they are and no timer callback is queued.
C7_UnlockOfUnlockedChangesNothing ==
    [][UnlocksUnlockedTarget =>
        UNCHANGED <<registryVars, domVars, savedVars, styleVars, timers>>]_vars

\* C8: no call of disableBodyScroll, enableBodyScroll or clearAllBodyScrollLocks
\* throws, whatever its target.
C8_NoOperationThrows == ~lastCall.threw

\* C9: on the standard platform, whenever the overflow is captured the two saved
\* values are the overflow values from before the first lock and both overflow
\* styles are 'hidden'; whenever it is not captured the overflow styles are
\* those original values.
C9_SavedOverflowIsTheOriginal ==
    ~isIosDevice =>
        IF previousBodyOverflowSetting # UNDEFINED
        THEN /\ previousBodyOverflowSetting = original.bodyOverflow
             /\ previousDocumentElementOverflowSetting = original.documentElementOverflow
             /\ OverflowHidden
        ELSE OverflowOriginal

C9_Witness ==
    /\ ~isIosDevice
    /\ lastCall.op = "setOverflowHidden"
    /\ lastCall.before = 1
    /\ ~lastCall.again
    /\ previousBodyOverflowSetting = "auto"
    /\ previousDocumentElementOverflowSetting = ""
    /\ OverflowHidden

\* The measured gaps, written as CSS lengths.
GapInPx == [g \in ScrollBarGaps |-> IF g = 15 THEN "15px" ELSE "0px"]

\* C10: on the standard platform, the timer callback of a lock changes the
\* body's right padding only when reserveScrollBarGap is true, the gap is greater
\* than 0 and no padding is saved, and then saves the padding and sets it to the
\* gap in px; without reserveScrollBarGap it never changes it; and the callback
\* of an unlock leaves the padding at its value from before the locks.
C10_PaddingFollowsReservedGap ==
    /\ [][lastCall'.op = "setOverflowHidden" =>
            IF /\ lastCall'.options.given
               /\ lastCall'.options.reserveScrollBarGap
               /\ lastCall'.gap > 0
               /\ previousBodyPaddingRight = UNDEFINED
            THEN /\ bodyPaddingRight' = GapInPx[lastCall'.gap]
                 /\ previousBodyPaddingRight' = bodyPaddingRight
            ELSE UNCHANGED <<bodyPaddingRight, previousBodyPaddingRight>>]_vars
    /\ [][lastCall'.op = "restoreOverflowSetting" =>
            /\ bodyPaddingRight' = original.bodyPaddingRight
            /\ previousBodyPaddingRight' = UNDEFINED]_vars

C10_Witness ==
    /\ ~isIosDevice
    /\ lastCall.op = "setOverflowHidden"
    /\ lastCall.options.reserveScrollBarGap
    /\ lastCall.gap = 15
    /\ original.bodyPaddingRight = "10px"
    /\ previousBodyPaddingRight = "10px"
    /\ bodyPaddingRight = "15px"

\* C11: on the touch platform, the ontouchmove callback of a registered target
\* prevents the default action of a touchmove exactly when the event has one
\* touch point and either the target is at its top (scrollTop = 0) and the touch
\* moved down since initialClientY, or the target is totally scrolled
\* (scrollHeight - scrollTop <= clientHeight) and the touch moved up.
C11_TouchMovePreventedAtBoundaries ==
    (event.type = "touchmove" /\ event.handledBy = "element") =>
        (event.defaultPrevented <=>
            /\ event.touches = 1
            /\ \/ event.scrollTop = 0 /\ event.clientY - initialClientY > 0
               \/ /\ event.scrollHeight - event.scrollTop <= event.clientHeight
                  /\ event.clientY - initialClientY < 0)

C11_Witness ==
    /\ event.type = "touchmove" /\ event.handledBy = "element"
    /\ event.target = "B"
    /\ event.touches = 1
    /\ event.scrollTop = 2 /\ event.scrollHeight = 3 /\ event.clientHeight = 1
    /\ initialClientY = 1 /\ event.clientY = 0
    /\ event.defaultPrevented

\* C12: on the touch platform, with at least one target registered, the body's
\* touchstart and touchmove listeners prevent the default action of a touch
\* exactly when it lands outside every registered target.
C12_BodyPreventsOnlyOutsideTargets ==
    (event.handledBy = "body" /\ allTargetElements # <<>>) =>
        (event.defaultPrevented <=> event.target \notin SeqSet(allTargetElements))

\* C13: whenever allTargetElements is empty, initialClientY is the sentinel -1,
\* however the last target was released.
C13_SentinelWhenNothingRegistered ==
    allTargetElements = <<>> => initialClientY = SENTINEL

\* The elements registered on the touch platform once the first k recorded calls
\* have been made.
RECURSIVE RegisteredAfter(_)
RegisteredAfter(k) ==
    IF k = 0 THEN {}
    ELSE IF made[k].op = "disableBodyScroll"
         THEN RegisteredAfter(k - 1) \cup {made[k].target}
         ELSE RegisteredAfter(k - 1) \ {made[k].target}

\* The target of the last of the first k recorded calls that took the registry
\* from empty to non-empty.
RECURSIVE OpenerAfter(_)
OpenerAfter(k) ==
    IF k = 0 THEN NULL
    ELSE IF made[k].op = "disableBodyScroll" /\ RegisteredAfter(k - 1) = {}
         THEN made[k].target
         ELSE OpenerAfter(k - 1)

\* C14: on the touch platform, whenever firstTargetElement is set it is the
\* target of the lock call that most recently took allTargetElements from empty
\* to non-empty, never a target registered while others were registered.
C14_FirstTargetOpenedTheRegistry ==
    (isIosDevice /\ firstTargetElement \in Elements) =>
        firstTargetElement = OpenerAfter(Len(made))

\* The step queues one timer callback.
QueuesTimer == Len(timers') = Len(timers) + 1

\* The step is an exported operation whose strategy shows: the standard strategy
\* of disableBodyScroll, of clearAllBodyScrollLocks and of enableBodyScroll(T)
\* for T = firstTargetElement queues a timer callback, the touch strategy none.
StrategyShows ==
    \/ lastCall'.op \in {"disableBodyScroll", "clearAllBodyScrollLocks"}
    \/ lastCall'.op = "enableBodyScroll" /\ lastCall'.target = firstTargetElement

UnlocksRegisteredTarget ==
    /\ isIosDevice
    /\ lastCall'.op = "enableBodyScroll"
    /\ Includes(allTargetElements, lastCall'.target)
    /\ lastCall'.target \in DOMAIN handlers

\* C16: on the touch platform, enableBodyScroll(T) for a registered T removes
\* T's body listeners, its handlers entry, its ontouchstart and ontouchmove
\* callbacks and T from allTargetElements, clears firstTargetElement only if it
\* was T, and leaves every other registered target as it was: in
\* allTargetElements in the same order, with its handlers entry, its body
\* listeners and its callbacks.
C16_UnlockRemovesOnlyItsTarget ==
    [][UnlocksRegisteredTarget =>
        LET t == lastCall'.target
            others == SelectSeq(allTargetElements, LAMBDA e : e # t)
        IN
        /\ \A l \in bodyListeners' : l.listener # handlers[t]
        /\ t \notin DOMAIN handlers'
        /\ ontouchstart'[t] = NULL /\ ontouchmove'[t] = NULL
        /\ allTargetElements' = others
        /\ firstTargetElement' = IF firstTargetElement = t THEN NULL
                                  ELSE firstTargetElement
        /\ \A u \in SeqSet(others) :
              /\ u \in DOMAIN handlers'
              /\ handlers'[u] = handlers[u]
              /\ ontouchstart'[u] = ontouchstart[u]
              /\ ontouchmove'[u] = ontouchmove[u]
        /\ \A l \in bodyListeners : l.listener # handlers[t] => l \in bodyListeners'
        /\ bodyListeners' \subseteq bodyListeners]_vars

C16_Witness ==
    /\ isIosDevice
    /\ lastCall.op = "enableBodyScroll"
    /\ lastCall.target = "A"
    /\ lastCall.before = 3
    /\ allTargetElements = <<"C", "B">>
    /\ firstTargetElement = "C"
    /\ DOMAIN handlers = {"B", "C"}
    /\ Cardinality(bodyListeners) = 4

IsOperation(op) ==
    op \in {"disableBodyScroll", "enableBodyScroll", "clearAllBodyScrollLocks"}

\* C17: on the standard platform no exported operation changes the document
\* styles or the saved values, which change only when a timer callback runs;
\* disableBodyScroll and clearAllBodyScrollLocks each queue exactly one timer
\* callback and enableBodyScroll queues one exactly when its target is
\* firstTargetElement; on the touch platform no step queues a callback or
\* changes these values.
C17_StylesChangeOnlyInTimerCallbacks ==
    /\ [][(~isIosDevice /\ IsOperation(lastCall'.op)) =>
             UNCHANGED <<styleVars, savedVars>>]_vars
    /\ [][(styleVars' # styleVars \/ savedVars' # savedVars) =>
             lastCall'.op \in {"setOverflowHidden", "restoreOverflowSetting"}]_vars
    /\ [][(~isIosDevice /\ IsOperation(lastCall'.op)) =>
             IF \/ lastCall'.op \in {"disableBodyScroll", "clearAllBodyScrollLocks"}
                \/ lastCall'.target = firstTargetElement
             THEN /\ Len(timers') = Len(timers) + 1
                  /\ SubSeq(timers', 1, Len(timers)) = timers
             ELSE timers' = timers]_vars
    /\ [][isIosDevice => UNCHANGED <<timers, styleVars, savedVars>>]_vars

C17_Witness ==
    /\ ~isIosDevice
    /\ lastCall.op = "enableBodyScroll"
    /\ lastCall.target = "B"
    /\ firstTargetElement = NULL
    /\ Len(timers) = 1
    /\ timers[1].by = "enableBodyScroll"
    /\ OverflowCaptured
    /\ OverflowHidden
    /\ original.bodyOverflow = "auto"

\* The elements that carry the module's callback in cb.
WithModuleCallback(cb) == {e \in Elements : cb[e] = ModuleCallback}

\* C18: on the touch platform the records of what is locked agree: the keys of
\* handlers, the elements of allTargetElements and the elements that carry the
\* module's ontouchstart and ontouchmove callbacks are the same set, and the
\* body has exactly one touchstart and one touchmove listener for every
\* registered target, the target's handler, and no other listener.
C18_RecordsOfLocksAgree ==
    isIosDevice =>
        /\ DOMAIN handlers = SeqSet(allTargetElements)
        /\ WithModuleCallback(ontouchstart) = SeqSet(allTargetElements)
        /\ WithModuleCallback(ontouchmove) = SeqSet(allTargetElements)
        /\ \A t \in DOMAIN handlers : handlers[t].target = t
        /\ \A t, u \in DOMAIN handlers : handlers[t] = handlers[u] => t = u
        /\ bodyListeners =
               {[type |-> ty, listener |-> handlers[t]] :
                    ty \in {"touchstart", "touchmove"}, t \in DOMAIN handlers}
        /\ Cardinality(bodyListeners) = 2 * Len(allTargetElements)

C18_Witness ==
    /\ isIosDevice
    /\ lastCall.op = "disableBodyScroll"
    /\ lastCall.target = "A"
    /\ allTargetElements = <<"C", "A">>
    /\ ontouchstart["B"] = HostCallback
    /\ Cardinality(bodyListeners) = 4
    /\ handlers["A"].id = 1

\* C19: on the standard platform, with elements for targets and the timer
\* callbacks run in the order they were queued, whenever no callback waits the
\* overflow is captured, and the overflow styles 'hidden', exactly when
\* firstTargetElement is set.
C19_CapturedWhenFirstTargetSet ==
    (~isIosDevice /\ timers = <<>>) =>
        /\ OverflowCaptured <=> firstTargetElement \in Elements
        /\ OverflowCaptured => OverflowHidden

C19_Witness ==
    /\ ~isIosDevice
    /\ timers = <<>>
    /\ lastCall.op = "setOverflowHidden"
    /\ lastCall.before = 0
    /\ firstTargetElement = "C"
    /\ OverflowCaptured
    /\ OverflowHidden
    /\ previousDocumentElementOverflowSetting = "auto"

\* C20: on either platform, once a sequence of lock and unlock calls in which
\* every lock(X) is followed by an unlock(X) has been made and every timer
\* callback has run, allTargetElements and handlers are empty, the body has no
\* listener and no element a callback of the module, firstTargetElement is null
\* and the overflow and padding are what they were before the sequence.
C20_MatchedCallsEndUnlocked ==
    (timers = <<>> /\ Outstanding = {}) =>
        /\ allTargetElements = <<>>
        /\ handlers = EmptyMap
        /\ bodyListeners = {}
        /\ NoModuleCallbacks
        /\ firstTargetElement = NULL
        /\ StylesOriginal

C20_Witness ==
    /\ isIosDevice
    /\ Len(made) = 4
    /\ IsLock(made[1], "A") /\ IsLock(made[2], "B")
    /\ IsUnlock(made[3], "A") /\ IsUnlock(made[4], "B")
    /\ Outstanding = {}
    /\ allTargetElements = <<>>
    /\ ontouchstart["C"] = HostCallback

====
